---- MODULE Spec2Model ----
(***************************************************************************)
(* The rule no-array-for-each (src/rules/no-array-for-each.js) as a state  *)
(* machine.  One behaviour is the analysis of one file: the traversal      *)
(* collaborator delivers nodes in document order to the handlers returned  *)
(* by `create`, and `Program:exit` classifies every recorded call site     *)
(* with isFixable and, when fixable, builds its patch with getFixFunction. *)
(*                                                                         *)
(* Source text is a row of tokens, each one offset wide, so a range is a   *)
(* pair of token offsets.  A text is a sequence of token strings.          *)
(***************************************************************************)
EXTENDS Integers, Sequences, FiniteSets, TLC

VARIABLES
    functionStack,   \* create: functionStack (function ids, top is last)
    callExpressions, \* create: callExpressions ({node, scope} in visit order)
    allIdentifiers,  \* create: allIdentifiers (identifier nodes in visit order)
    functionInfo,    \* create: functionInfo (function id -> {returnStatements, scope})
    problems,        \* what 'Program:exit' yields, in order
    done,            \* 'Program:exit' has run
    pos,             \* traversal: offset of the next token of the file
    open,            \* traversal: the nodes entered and not yet left
    calls,           \* syntax tree: the forEach call nodes (call id -> node)
    fns,             \* syntax tree: the function nodes (function id -> node)
    identifiers,     \* syntax tree: the reference identifiers, in document order
    pending,         \* traversal: children of the last call still to be visited
    nnodes,          \* traversal: statements visited so far
    globalX          \* scope manager: the module scope declares the name "x"

vars == <<functionStack, callExpressions, allIdentifiers, functionInfo, problems,
          done, pos, open, calls, fns, identifiers, pending, nnodes, globalX>>

codeVars == <<functionStack, callExpressions, allIdentifiers, functionInfo>>

(***************************************************************************)
(* Bounds of the model.                                                    *)
(***************************************************************************)
\* nodes of a file of Spec
MaxNodes == 4
\* nodes of a file of SpecBody
MaxBodyNodes == 4
\* nodes of a file of SpecFix
MaxFixNodes == 3

(***************************************************************************)
(* Program constants.                                                      *)
(***************************************************************************)
MESSAGE_ID == "no-array-for-each"

continueAbleNodeTypes ==
    {"WhileStatement", "DoWhileStatement", "ForStatement", "ForOfStatement",
     "ForInStatement"}

ignoredObjects == {"React.Children", "Children", "R", "pIteration"}

FunctionTypes == {"FunctionExpression", "ArrowFunctionExpression", "FunctionDeclaration"}

Last(s) == s[Len(s)]
Front(s) == SubSeq(s, 1, Len(s) - 1)

RECURSIVE Flatten(_)
Flatten(ss) == IF ss = <<>> THEN <<>> ELSE Head(ss) \o Flatten(Tail(ss))

(***************************************************************************)
(* The syntax tree the traversal collaborator delivers.                    *)
(*                                                                         *)
(* A forEach call site is laid out, from the first token of its statement: *)
(*   [a =] [(] [(] receiver [)] .|?. forEach [?.] ( [(] callback [)]       *)
(*   [, thisArg] [,] ) [)] [;]                                             *)
(* and its shape is the record of the choices made in that layout.         *)
(***************************************************************************)
BaseShape ==
    [receiver |-> "foo", receiverParen |-> FALSE, optionalMember |-> FALSE,
     optionalCall |-> FALSE, callParen |-> FALSE, nargs |-> 1,
     context |-> "Statement", cbType |-> "ArrowFunctionExpression",
     block |-> TRUE, multiline |-> FALSE, async |-> FALSE, generator |-> FALSE,
     nparams |-> 1, rest |-> FALSE, typed |-> FALSE, dupDef |-> FALSE,
     named |-> FALSE, cbParen |-> FALSE, trailingComma |-> FALSE,
     semicolon |-> TRUE, selfUsed |-> FALSE]

RecvText(r) ==
    CASE r = "a.b" -> <<"a", ".", "b">>
      [] r = "React.Children" -> <<"React", ".", "Children">>
      [] OTHER -> <<r>>

RecvIsIdentifier(r) == Len(RecvText(r)) = 1

\* callee.object.name: the name of an Identifier, undefined on any other node
ObjectName(r) == IF RecvIsIdentifier(r) THEN r ELSE "undefined"

ParamNames(c) == SubSeq(<<"x", "i", "z">>, 1, c.nparams)

IsFunctionType(t) == t \in FunctionTypes

\* callExpression.parent.type
ParentType(c) ==
    IF c.optionalMember \/ c.optionalCall THEN "ChainExpression"
    ELSE IF c.context = "Statement" THEN "ExpressionStatement"
    ELSE "AssignmentExpression"

\* callExpression.parent.parent.type, for a call inside a ChainExpression
ChainParentType(c) ==
    IF c.context = "Statement" THEN "ExpressionStatement" ELSE "AssignmentExpression"

B(b) == IF b THEN 1 ELSE 0

StmtStart(n) == n.stmtStart
CallStart(n) == n.stmtStart + (IF n.shape.context = "Assign" THEN 2 ELSE 0)
                    + B(n.shape.callParen)
ArrayStart(n) == CallStart(n) + B(n.shape.receiverParen)
ArrayEnd(n) == ArrayStart(n) + Len(RecvText(n.shape.receiver))
PropertyStart(n) == ArrayEnd(n) + B(n.shape.receiverParen) + 1
PropertyEnd(n) == PropertyStart(n) + 1
CallbackStart(n) == PropertyEnd(n) + B(n.shape.optionalCall) + 1 + B(n.shape.cbParen)
\* the tokens from the callback's first one up to its body
CallbackHeadWidth(c) ==
    B(c.async) + B(c.cbType = "FunctionExpression") + B(c.generator) + B(c.named)
        + c.nparams + B(c.cbType = "ArrowFunctionExpression")
\* after the callback: its closing parenthesis, a second argument, a trailing comma
CommaStart(n) == n.cbEnd + B(n.shape.cbParen) + (IF n.shape.nargs = 2 THEN 2 ELSE 0)
CallEnd(n) == CommaStart(n) + B(n.shape.trailingComma) + 1
StmtEnd(n) == CallEnd(n) + B(n.shape.callParen) + B(n.shape.semicolon)

CallRange(n) == <<CallStart(n), CallEnd(n)>>
StmtRange(n) == <<StmtStart(n), StmtEnd(n)>>
\* callExpression.parent.range: a ChainExpression spans the call, an
\* AssignmentExpression the statement without its semicolon
ParentRange(n) ==
    CASE ParentType(n.shape) = "ChainExpression" -> CallRange(n)
      [] ParentType(n.shape) = "ExpressionStatement" -> StmtRange(n)
      [] OTHER -> <<StmtStart(n), CallEnd(n) + B(n.shape.callParen)>>

(***************************************************************************)
(* The nodes entered and not yet left.                                     *)
(***************************************************************************)
ConstructTypes == continueAbleNodeTypes \cup {"IfStatement", "WithStatement"}

IsFn(e) == e.type \in FunctionTypes
Top == Last(open)

CanStatement ==
    \/ open = <<>>
    \/ open # <<>> /\ IsFn(Top) /\ Top.block
    \/ open # <<>> /\ Top.type = "BlockStatement"
    \/ open # <<>> /\ Top.type \in ConstructTypes /\ Top.slots > 0

\* inside the expression that is the body of an arrow function
CanExpression == open # <<>> /\ IsFn(Top) /\ ~Top.block

\* the `else` token before the alternate of an IfStatement
Lead == IF open # <<>> /\ Top.type = "IfStatement" /\ Top.slots = 1 THEN 1 ELSE 0

Role ==
    IF open = <<>> THEN "item"
    ELSE IF Top.type = "IfStatement"
         THEN (IF Top.slots = 2 THEN "consequent" ELSE "alternate")
    ELSE IF Top.type \in ConstructTypes THEN "body"
    ELSE "item"

ParentNodeType ==
    IF open = <<>> THEN "Program"
    ELSE IF IsFn(Top) THEN "BlockStatement"
    ELSE Top.type

\* the stack once its top has taken one more child statement
Consumed ==
    IF open # <<>> /\ Top.type \in ConstructTypes
    THEN [open EXCEPT ![Len(open)].slots = @ - 1]
    ELSE open

\* the stack once its top has taken the lines of a child statement that ends: the
\* statements of a block written over several lines stand on lines of their own,
\* any other child goes on on the line of its parent
Grown(o, lines) ==
    IF o = <<>> THEN o
    ELSE [o EXCEPT ![Len(o)].lines =
            IF Last(o).multiline /\ (Last(o).type = "BlockStatement" \/ IsFn(Last(o)))
            THEN @ + lines ELSE @ + lines - 1]

\* the tokens of a statement before its body: `{`, `do`, `if (c)`, `while (c)`, ...
HeadWidth(t) == IF t \in {"BlockStatement", "DoWhileStatement"} THEN 1 ELSE 2

\* the tokens of a statement after its body: `}`, and `while (c);` of a do-while
TailWidth(t) ==
    IF t = "BlockStatement" THEN 1 ELSE IF t = "DoWhileStatement" THEN 2 ELSE 0

\* the lines a node starts with: the two of the braces of a block written over
\* several lines, else the one it begins on
FirstLines(multiline) == IF multiline THEN 2 ELSE 1

\* the innermost function around the current position (0: none)
RECURSIVE InnermostFn(_)
InnermostFn(o) ==
    IF o = <<>> THEN 0 ELSE IF IsFn(Last(o)) THEN Last(o).id ELSE InnermostFn(Front(o))

\* context.getScope(): the scope of the innermost function, else the module scope
GetScope == InnermostFn(open)

\* body.body of a function: a statement over <<s, e>>, written on so many lines,
\* directly in the block of the function on top of stack o
AddBodyStatement(f, o, s, e, lines) ==
    IF o # <<>> /\ IsFn(Last(o)) /\ Last(o).block
    THEN [f EXCEPT ![Last(o).id].stmts = Append(@, [range |-> <<s, e>>, lines |-> lines])]
    ELSE f

Ancestors == [k \in 1..Len(open) |-> [type |-> open[k].type, id |-> open[k].id]]

NoIdentifier ==
    [name |-> "", start |-> 0, end |-> 0, from |-> 0, parent |-> "", left |-> FALSE,
     write |-> FALSE]

\* the reference identifier the receiver of a call starts with
ReceiverIdentifier(n) ==
    [name |-> Head(RecvText(n.shape.receiver)), start |-> ArrayStart(n),
     end |-> ArrayStart(n) + 1, from |-> n.scope,
     parent |-> (IF RecvIsIdentifier(n.shape.receiver) THEN "MemberExpression"
                 ELSE "MemberExpression"),
     left |-> FALSE, write |-> FALSE]

\* a callback that is not a function is a reference identifier, `cb`
CallbackIdentifier(n) ==
    [name |-> "cb", start |-> CallbackStart(n), end |-> CallbackStart(n) + 1,
     from |-> n.scope, parent |-> "CallExpression", left |-> FALSE, write |-> FALSE]

(***************************************************************************)
(* The handlers `create` returns.                                          *)
(***************************************************************************)
\* isNodeMatches(node.callee.object, ignoredObjects)
isNodeMatches(receiver, names) == receiver \in names

\* ':function': functionStack.push(node)
PushFunction(stack, node) == Append(stack, node)

\* ':function': functionInfo.set(node, {returnStatements: [], scope})
SetFunctionInfo(info, node, scope) ==
    (node :> [returnStatements |-> <<>>, scope |-> scope]) @@ info

\* ':function:exit': functionStack.pop()
PopFunctionNoPop(stack) == stack
PopFunction(stack) == IF stack = <<>> THEN stack ELSE Front(stack)

\* the reference identifier handler: allIdentifiers.push(node)
PushIdentifier(list, node) == Append(list, node)

\* ':function ReturnStatement': the function the return statement is recorded in
CurrentFunction(stack) == IF stack = <<>> THEN 0 ELSE stack[Len(stack)]

\* ':function ReturnStatement': functionInfo.get(currentFunction).returnStatements.push(node)
RecordReturn(info, stack, node) ==
    LET currentFunction == CurrentFunction(stack)
    IN  IF currentFunction \in DOMAIN info
        THEN [info EXCEPT ![currentFunction].returnStatements = Append(@, node)]
        ELSE info

\* the forEach call handler: skip an ignored receiver, else record {node, scope}
RecordCallIgnoringNothing(list, n) == Append(list, [node |-> n.id, scope |-> n.scope])
RecordCall(list, n) ==
    IF isNodeMatches(n.shape.receiver, ignoredObjects)
    THEN list
    ELSE Append(list, [node |-> n.id, scope |-> n.scope])

(***************************************************************************)
(* Traversal: one action per node kind the rule has a handler for, plus    *)
(* the statements that only shape the tree.                                *)
(***************************************************************************)
Traversing == ~done /\ pending = <<>>

VisitCall(shapes, maxNodes) ==
    /\ Traversing
    /\ CanStatement
    /\ nnodes < maxNodes
    /\ nnodes' = nnodes + 1
    /\ \E c \in shapes :
        /\ LET n0 == [shape |-> c, id |-> Len(calls) + 1, stmtStart |-> pos + Lead,
                      cb |-> 0, bodyStart |-> 0, cbEnd |-> 0, scope |-> GetScope,
                      closed |-> FALSE]
               n == IF IsFunctionType(c.cbType) THEN n0
                    ELSE [n0 EXCEPT !.cbEnd = CallbackStart(n0) + 1, !.closed = TRUE]
           IN  /\ callExpressions' = RecordCall(callExpressions, n)
               /\ calls' = Append(calls, n)
               /\ pending' =
                    <<[kind |-> "identifier", ident |-> ReceiverIdentifier(n), call |-> n.id]>>
                    \o (IF IsFunctionType(c.cbType)
                        THEN <<[kind |-> "callback", ident |-> NoIdentifier, call |-> n.id]>>
                        ELSE <<[kind |-> "identifier", ident |-> CallbackIdentifier(n),
                                call |-> n.id]>>)
               /\ pos' = IF IsFunctionType(c.cbType) THEN CallbackStart(n) ELSE StmtEnd(n)
               /\ open' = IF IsFunctionType(c.cbType) THEN Consumed ELSE Grown(Consumed, 1)
               /\ fns' = IF IsFunctionType(c.cbType) THEN fns
                         ELSE AddBodyStatement(fns, Consumed, StmtStart(n), StmtEnd(n), 1)
    /\ UNCHANGED <<functionStack, allIdentifiers, functionInfo, problems, done,
                   identifiers, globalX>>

\* the reference identifiers of the call just visited, in document order
VisitCallIdentifier ==
    /\ ~done
    /\ pending # <<>>
    /\ Head(pending).kind = "identifier"
    /\ allIdentifiers' = PushIdentifier(allIdentifiers, Head(pending).ident)
    /\ identifiers' = Append(identifiers, Head(pending).ident)
    /\ pending' = Tail(pending)
    /\ UNCHANGED <<functionStack, callExpressions, functionInfo, problems, done, pos,
                   open, calls, fns, nnodes, globalX>>

\* ':function' on the function that is the first argument of the call just visited
EnterCallback ==
    /\ ~done
    /\ pending # <<>>
    /\ Head(pending).kind = "callback"
    /\ LET k == Head(pending).call
           c == calls[k].shape
           f == Len(fns) + 1
           bodyStart == pos + CallbackHeadWidth(c)
       IN  /\ fns' = Append(fns, [id |-> f, type |-> c.cbType, block |-> c.block,
                                  call |-> k, upper |-> GetScope,
                                  declares |-> {ParamNames(c)[j] : j \in 1..c.nparams},
                                  start |-> pos, bodyStart |-> bodyStart, bodyEnd |-> 0,
                                  stmts |-> <<>>, returns |-> <<>>])
           /\ calls' = [calls EXCEPT ![k].cb = f, ![k].bodyStart = bodyStart]
           /\ open' = Append(open, [type |-> c.cbType, id |-> f, slots |-> 0,
                                    start |-> calls[k].stmtStart, block |-> c.block,
                                    call |-> k, multiline |-> c.block /\ c.multiline,
                                    lines |-> FirstLines(c.block /\ c.multiline)])
           /\ pos' = bodyStart + 1
           /\ functionStack' = PushFunction(functionStack, f)
           /\ functionInfo' = SetFunctionInfo(functionInfo, f, f)
    /\ pending' = Tail(pending)
    /\ UNCHANGED <<callExpressions, allIdentifiers, problems, done, identifiers, nnodes,
                   globalX>>

\* ':function' on a function declaration, `function g(x) {` or `function g() {`
EnterFunction(maxNodes) ==
    /\ Traversing
    /\ CanStatement
    /\ open # <<>> => Top.type \notin ConstructTypes
    /\ nnodes < maxNodes
    /\ nnodes' = nnodes + 1
    /\ \E declaresX \in BOOLEAN :
        LET f == Len(fns) + 1
            bodyStart == pos + 2 + B(declaresX)
        IN  /\ fns' = Append(fns, [id |-> f, type |-> "FunctionDeclaration",
                                   block |-> TRUE, call |-> 0, upper |-> GetScope,
                                   declares |-> IF declaresX THEN {"x"} ELSE {},
                                   start |-> pos, bodyStart |-> bodyStart, bodyEnd |-> 0,
                                   stmts |-> <<>>, returns |-> <<>>])
            /\ open' = Append(open, [type |-> "FunctionDeclaration", id |-> f,
                                     slots |-> 0, start |-> pos, block |-> TRUE,
                                     call |-> 0, multiline |-> FALSE, lines |-> 1])
            /\ pos' = bodyStart + 1
            /\ functionStack' = PushFunction(functionStack, f)
            /\ functionInfo' = SetFunctionInfo(functionInfo, f, f)
    /\ UNCHANGED <<callExpressions, allIdentifiers, problems, done, calls, identifiers,
                   pending, globalX>>

\* ':function:exit'; leaving a callback also closes its call and the statement
ExitFunction ==
    /\ Traversing
    /\ open # <<>>
    /\ IsFn(Top)
    /\ LET f == Top.id
           k == Top.call
           end == pos + 1
           closedCalls == IF k = 0 THEN calls
                          ELSE [calls EXCEPT ![k].cbEnd = end, ![k].closed = TRUE]
           stmtEnd == IF k = 0 THEN end ELSE StmtEnd(closedCalls[k])
       IN  /\ calls' = closedCalls
           /\ fns' = AddBodyStatement([fns EXCEPT ![f].bodyEnd = end], Front(open),
                                      Top.start, stmtEnd, Top.lines)
           /\ pos' = stmtEnd
    /\ open' = Grown(Front(open), Top.lines)
    /\ functionStack' = PopFunction(functionStack)
    /\ UNCHANGED <<callExpressions, allIdentifiers, functionInfo, problems, done,
                   identifiers, pending, nnodes, globalX>>

\* `if (c)`, `with (o)`, `while (c)`, `do`, `{`: a statement whose body comes next;
\* it is written as its parent is, on one line or over several
EnterStatement(types, maxNodes) ==
    /\ Traversing
    /\ CanStatement
    /\ GetScope # 0
    /\ nnodes < maxNodes
    /\ \E t \in types :
        open' = Append(Consumed,
                       [type |-> t, id |-> 0,
                        slots |-> IF t = "IfStatement" THEN 2
                                  ELSE IF t = "BlockStatement" THEN 0 ELSE 1,
                        start |-> pos + Lead, block |-> FALSE, call |-> 0,
                        multiline |-> open # <<>> /\ Top.multiline,
                        lines |-> FirstLines(/\ t = "BlockStatement"
                                             /\ open # <<>> /\ Top.multiline)])
             /\ pos' = pos + Lead + HeadWidth(t)
    /\ nnodes' = nnodes + 1
    /\ UNCHANGED <<codeVars, problems, done, calls, fns, identifiers, pending, globalX>>

ExitStatement ==
    /\ Traversing
    /\ open # <<>>
    /\ ~IsFn(Top)
    /\ Top.type = "IfStatement" => Top.slots <= 1
    /\ Top.type \in ConstructTypes \ {"IfStatement"} => Top.slots = 0
    /\ LET end == pos + TailWidth(Top.type)
       IN  /\ pos' = end
           /\ fns' = AddBodyStatement(fns, Front(open), Top.start, end, Top.lines)
    /\ open' = Grown(Front(open), Top.lines)
    /\ UNCHANGED <<codeVars, problems, done, calls, identifiers, pending, nnodes,
                   globalX>>

\* ':function ReturnStatement'
VisitReturn(kinds, maxNodes) ==
    /\ Traversing
    /\ CanStatement
    /\ GetScope # 0
    /\ nnodes < maxNodes
    /\ \E r \in kinds :
        LET start == pos + Lead
            argStart == start + 1 + B(r.parenthesized)
            end == start + 1 + (IF r.hasArg THEN 1 + 2 * B(r.parenthesized) ELSE 0)
                     + B(r.hasSemi)
            node == [id |-> nnodes + 1, fn |-> GetScope, ancestors |-> Ancestors,
                     parentType |-> ParentNodeType, role |-> Role, start |-> start,
                     end |-> end, argStart |-> argStart, hasArg |-> r.hasArg,
                     hasSemi |-> r.hasSemi, parenthesized |-> r.parenthesized,
                     needsParens |-> r.needsParens, needsSemi |-> r.needsSemi]
        IN  /\ functionInfo' = RecordReturn(functionInfo, functionStack, node)
            /\ pos' = end
            /\ fns' = AddBodyStatement([fns EXCEPT ![GetScope].returns = Append(@, node)],
                                       Consumed, start, end, 1)
    /\ open' = Grown(Consumed, 1)
    /\ nnodes' = nnodes + 1
    /\ UNCHANGED <<functionStack, callExpressions, allIdentifiers, problems, done,
                   calls, identifiers, pending, globalX>>

\* a reference identifier in an expression statement, or in an expression body
VisitIdentifier(kinds, maxNodes) ==
    /\ Traversing
    /\ CanStatement \/ CanExpression
    /\ nnodes < maxNodes
    /\ \E i \in kinds :
        LET start == pos + Lead
            end == start + i.pre + 1 + i.post + B(CanStatement)
            node == [name |-> i.name, start |-> start + i.pre,
                     end |-> start + i.pre + 1, from |-> GetScope, parent |-> i.parent,
                     left |-> i.left, write |-> i.write]
        IN  /\ allIdentifiers' = PushIdentifier(allIdentifiers, node)
            /\ identifiers' = Append(identifiers, node)
            /\ pos' = end
            /\ fns' = IF CanStatement THEN AddBodyStatement(fns, Consumed, start, end, 1)
                      ELSE fns
    /\ open' = IF CanStatement THEN Grown(Consumed, 1) ELSE open
    /\ nnodes' = nnodes + 1
    /\ UNCHANGED <<functionStack, callExpressions, functionInfo, problems, done,
                   calls, pending, globalX>>

(***************************************************************************)
(* The scope manager: scope 0 is the module scope, the scope of function f *)
(* is f.  -1 stands for no scope and for no variable.                      *)
(***************************************************************************)
Upper(s) == IF s <= 0 THEN -1 ELSE fns[s].upper

Declares(s, name) ==
    IF s = 0 THEN name = "x" /\ globalX ELSE name \in fns[s].declares

\* for (let scope = child; scope; scope = scope.upper) if (scope === parent) return true
RECURSIVE isChildScope(_, _)
isChildScope(child, parent) ==
    IF child = -1 THEN FALSE
    ELSE IF child = parent THEN TRUE
    ELSE isChildScope(Upper(child), parent)

\* the scope of the variable a name resolves to from scope s
RECURSIVE Lookup(_, _)
Lookup(s, name) ==
    IF s = -1 THEN -1
    ELSE IF Declares(s, name) THEN s
    ELSE Lookup(Upper(s), name)

\* eslint-utils findVariable(initialScope, node): resolve from the innermost
\* scope under initialScope that holds the node
findVariable(scope, identifier) ==
    Lookup(IF isChildScope(identifier.from, scope) THEN identifier.from ELSE scope,
           identifier.name)

\* context.getDeclaredVariables(callback): its name, then its parameters
getDeclaredVariables(n) ==
    (IF n.shape.named
     THEN <<[name |-> "cb", scope |-> n.cb, defs |-> <<"FunctionName">>]>>
     ELSE <<>>)
    \o [j \in 1..n.shape.nparams |->
          [name |-> ParamNames(n.shape)[j], scope |-> n.cb,
           defs |-> IF n.shape.dupDef /\ j = 1 THEN <<"Parameter", "Variable">>
                    ELSE <<"Parameter">>]]

\* variable.references
References(variable) ==
    SelectSeq(identifiers,
              LAMBDA i : i.name = variable.name /\ Lookup(i.from, i.name) = variable.scope)

\* Array#some
Some(seq, P(_)) == \E k \in 1..Len(seq) : P(seq[k])

(***************************************************************************)
(* The Fixability Analyzer.                                                *)
(***************************************************************************)
isReturnStatementInContinueAbleNodesParentOnly(returnStatement, callbackFunction) ==
    returnStatement.parentType \in continueAbleNodeTypes
isReturnStatementInContinueAbleNodes(returnStatement, callbackFunction) ==
    LET a == returnStatement.ancestors
        RECURSIVE walk(_)
        walk(k) ==
            IF k = 0 THEN FALSE
            ELSE IF a[k].id = callbackFunction /\ a[k].type \in FunctionTypes THEN FALSE
            ELSE IF a[k].type \in continueAbleNodeTypes THEN TRUE
            ELSE walk(k - 1)
    IN  walk(Len(a))

shouldSwitchReturnStatementToBlockStatementNever(returnStatement) == FALSE
shouldSwitchReturnStatementToBlockStatement(returnStatement) ==
    CASE returnStatement.parentType = "IfStatement" ->
            returnStatement.role \in {"consequent", "alternate"}
      [] returnStatement.parentType = "WithStatement" -> returnStatement.role = "body"
      [] OTHER -> FALSE

isFunctionParametersSafeToFixIgnoringIdentifiers(n, scope, array) ==
    \A v \in 1..Len(getDeclaredVariables(n)) :
        Len(getDeclaredVariables(n)[v].defs) = 1
isFunctionParametersSafeToFix(n, scope, array) ==
    LET variables == getDeclaredVariables(n)
        definition(v) == [type |-> variables[v].defs[1], name |-> variables[v].name]
    IN  \A v \in 1..Len(variables) :
            /\ Len(variables[v].defs) = 1
            /\ definition(v).type = "Parameter" =>
                 ~Some(allIdentifiers,
                       LAMBDA i : /\ i.name = definition(v).name
                                  /\ ~(i.start < array[1])
                                  /\ ~(i.end > array[2])
                                  /\ LET variable == findVariable(scope, i)
                                     IN  \/ variable = -1
                                         \/ variable = scope
                                         \/ isChildScope(scope, variable))

isFunctionParameterVariableReassigned(n) ==
    Some(SelectSeq(getDeclaredVariables(n), LAMBDA v : v.defs[1] = "Parameter"),
         LAMBDA v : Some(References(v),
                         LAMBDA r : \/ r.parent = "UpdateExpression"
                                    \/ r.parent = "AssignmentExpression" /\ r.left))

isFixable(n, scope) ==
    LET c == n.shape IN
    IF c.optionalCall \/ c.callParen \/ c.nargs # 1 THEN FALSE
    ELSE IF ParentType(c) # "ExpressionStatement" /\ ParentType(c) # "ChainExpression"
    THEN FALSE
    ELSE IF \/ c.cbType # "FunctionExpression" /\ c.cbType # "ArrowFunctionExpression"
            \/ c.async
            \/ c.generator
    THEN FALSE
    ELSE IF \/ ~(c.nparams = 1 \/ c.nparams = 2)
            \/ c.rest \/ c.typed
            \/ ~isFunctionParametersSafeToFix(n, scope, CallRange(n))
    THEN FALSE
    ELSE IF Some(functionInfo[n.cb].returnStatements,
                 LAMBDA r : isReturnStatementInContinueAbleNodes(r, n.cb))
    THEN FALSE
    ELSE IF c.selfUsed THEN FALSE
    ELSE TRUE

(***************************************************************************)
(* The patch: getFixFunction yields edits, each a range of the source and  *)
(* the text that replaces it.                                              *)
(***************************************************************************)
Edit(start, end, text) == [start |-> start, end |-> end, text |-> text]

replaceTextRange(range, text) == Edit(range[1], range[2], text)
remove(range) == Edit(range[1], range[2], <<>>)
insertTextBeforeRange(range, text) == Edit(range[1], range[1], text)
insertTextAfterRange(range, text) == Edit(range[2], range[2], text)

\* getIndentString(callExpression.parent.parent, sourceCode)
indentedString == "<indent>"

\* the tokens that are white space only
Whitespace == {" ", "\t", "\n", indentedString}

\* the first line of the text holds nothing but white space
IsBlankLine(text) ==
    \A k \in 1..Len(text) :
        (\A j \in 1..(k - 1) : text[j] # "\n") => text[k] \in Whitespace

\* indent-string: indentString(text, 1, {indent: '\t'}), one tab before every line
\* that holds more than white space
RECURSIVE IndentLines(_, _)
IndentLines(text, atLineStart) ==
    IF text = <<>> THEN <<>>
    ELSE IF atLineStart /\ ~IsBlankLine(text)
    THEN <<"\t">> \o IndentLines(text, FALSE)
    ELSE <<Head(text)>> \o IndentLines(Tail(text), Head(text) = "\n")

indentString(text) == IndentLines(text, TRUE)

\* sourceCode.getText(statement): the lines of the statement
getText(statement) ==
    [k \in 1..(2 * statement.lines - 1) |-> IF k % 2 = 1 THEN "<line>" ELSE "\n"]

\* text.replace(/\s+$/, '')
RECURSIVE trimTrailingWhitespace(_)
trimTrailingWhitespace(text) ==
    IF text # <<>> /\ Last(text) \in {" ", "\t", "\n"}
    THEN trimTrailingWhitespace(Front(text))
    ELSE text

getForOfLoopHeadTextSameOrder(n) ==
    LET c == n.shape
        elementText == ParamNames(c)[1]
    IN  <<"for (", IF isFunctionParameterVariableReassigned(n) THEN "let" ELSE "const",
          " ">>
        \o (IF c.nparams = 2 THEN <<"[", elementText, ", ", ParamNames(c)[2], "]">>
            ELSE <<elementText>>)
        \o <<" of ">> \o RecvText(c.receiver)
        \o (IF c.nparams = 2 THEN <<".entries()">> ELSE <<>>)
        \o <<")", " ">>
getForOfLoopHeadText(n) ==
    LET c == n.shape
        elementText == ParamNames(c)[1]
        indexText == IF c.nparams >= 2 THEN ParamNames(c)[2] ELSE "undefined"
        useEntries == c.nparams = 2
        arrayText == IF c.receiverParen
                     THEN <<"(">> \o RecvText(c.receiver) \o <<")">>
                     ELSE RecvText(c.receiver)
    IN  <<"for (", IF isFunctionParameterVariableReassigned(n) THEN "let" ELSE "const",
          " ">>
        \o (IF useEntries THEN <<"[", indexText, ", ", elementText, "]">>
            ELSE <<elementText>>)
        \o <<" of ">> \o arrayText
        \o (IF useEntries THEN <<".entries()">> ELSE <<>>)
        \o <<")", " ">>

\* [callExpression.range[0], callback.body.range[0]] for a block, else up to the
\* end of the `=>` token, which the body follows directly
getForOfLoopHeadRange(n) == <<CallStart(n), n.bodyStart>>

replaceReturnStatement(returnStatement) ==
    LET returnToken == <<returnStatement.start, returnStatement.start + 1>>
        nextToken == <<returnStatement.start + 1, returnStatement.start + 2>>
        argument == <<returnStatement.argStart, returnStatement.argStart + 1>>
        whole == <<returnStatement.start, returnStatement.end>>
        shouldAddParentheses ==
            ~returnStatement.parenthesized /\ returnStatement.needsParens
        insertBraces == shouldSwitchReturnStatementToBlockStatement(returnStatement)
        textBefore ==
            (IF insertBraces THEN <<"{ ">>
             ELSE IF returnStatement.needsSemi THEN <<";">> ELSE <<>>)
            \o (IF shouldAddParentheses THEN <<"(">> ELSE <<>>)
        textAfter == IF shouldAddParentheses THEN <<")">> ELSE <<>>
    IN  IF ~returnStatement.hasArg
        THEN <<replaceTextRange(returnToken, <<"continue">>)>>
        ELSE <<remove(returnToken)>>
             \o (IF textBefore # <<>>
                 THEN <<insertTextBeforeRange(nextToken, textBefore)>> ELSE <<>>)
             \o (IF textAfter # <<>>
                 THEN <<insertTextAfterRange(argument, textAfter)>> ELSE <<>>)
             \o (IF ~returnStatement.hasSemi
                 THEN <<insertTextAfterRange(whole, <<";">>)>> ELSE <<>>)
             \o <<insertTextAfterRange(whole, <<" continue;">>)>>
             \o (IF insertBraces
                 THEN <<insertTextAfterRange(whole, <<" }">>)>> ELSE <<>>)

\* the last token of the statement the call is expected to fill
expressionStatementLastToken(n) ==
    LET isOptionalChaining == n.shape.optionalMember
        type == IF isOptionalChaining THEN ChainParentType(n.shape)
                ELSE ParentType(n.shape)
    IN  IF type = "ExpressionStatement"
        THEN [range |-> <<StmtEnd(n) - 1, StmtEnd(n)>>, semicolon |-> n.shape.semicolon]
        ELSE [range |-> <<CallEnd(n) - 1, CallEnd(n)>>, semicolon |-> FALSE]

shouldRemoveExpressionStatementLastToken(n, token) ==
    IF ~token.semicolon THEN FALSE
    ELSE IF ~n.shape.block /\ ~n.shape.optionalMember THEN FALSE
    ELSE TRUE

wrapInIfStatement(n) ==
    LET c == n.shape
        isBlockStatement == c.block
        isSingleLine == ~isBlockStatement \/ ~c.multiline
        isMultilineBlock == c.block /\ ~isSingleLine
        indentedForOfClosingBracket == IF isSingleLine THEN <<"}">> ELSE indentString(<<"}">>)
        expressions == fns[n.cb].stmts
    IN  <<insertTextBeforeRange(CallRange(n), <<"if (", ObjectName(c.receiver), ") {", "\n">>),
          insertTextAfterRange(CallRange(n), <<"\n", indentedString, "}">>)>>
        \o (IF ~c.block /\ isSingleLine
            THEN <<insertTextAfterRange(<<n.bodyStart, n.cbEnd>>, <<";">>)>> ELSE <<>>)
        \o (IF ~isMultilineBlock THEN <<>>
            ELSE <<replaceTextRange(<<n.cbEnd - 1, n.cbEnd>>, indentedForOfClosingBracket)>>
                 \o [k \in 1..Len(expressions) |->
                       replaceTextRange(expressions[k].range,
                                        indentString(getText(expressions[k])))])

\* removeCallbackParentheses: the closing parenthesis around the callback
removeCallbackParentheses(n) ==
    IF n.shape.cbParen THEN <<remove(<<n.cbEnd, n.cbEnd + 1>>)>> ELSE <<>>

\* fix/extend-range.js: two empty insertions at the ends of the range
extendFixRange(range) ==
    <<insertTextBeforeRange(range, <<>>), insertTextAfterRange(range, <<>>)>>

\* fix/fix-space-around-keywords.js: a space where the node touches a keyword;
\* the statements of the modelled files stand apart from the tokens around them
fixSpaceAroundKeyword(range) == <<>>

getFixFunction(n) ==
    LET c == n.shape
        returnStatements == functionInfo[n.cb].returnStatements
        isOptionalChaining == c.optionalMember
        isBlockStatement == c.block
        indentedForOfLoopHeadText == <<indentedString>> \o indentString(getForOfLoopHeadText(n))
        trimmedForOfLoopHeadText ==
            IF isBlockStatement THEN indentedForOfLoopHeadText
            ELSE trimTrailingWhitespace(indentedForOfLoopHeadText)
        lastToken == expressionStatementLastToken(n)
    IN  <<replaceTextRange(getForOfLoopHeadRange(n),
                           IF isOptionalChaining THEN trimmedForOfLoopHeadText
                           ELSE getForOfLoopHeadText(n))>>
        \o removeCallbackParentheses(n)
        \o (IF c.trailingComma THEN <<remove(<<CallEnd(n) - 2, CallEnd(n) - 1>>)>>
            ELSE <<>>)
        \o <<remove(<<CallEnd(n) - 1, CallEnd(n)>>)>>
        \o Flatten([k \in 1..Len(returnStatements) |->
                      replaceReturnStatement(returnStatements[k])])
        \o (IF shouldRemoveExpressionStatementLastToken(n, lastToken)
            THEN <<remove(lastToken.range)>> ELSE <<>>)
        \o fixSpaceAroundKeyword(ParentRange(n))
        \o (IF isOptionalChaining THEN wrapInIfStatement(n) ELSE <<>>)
        \o extendFixRange(ParentRange(n))

(***************************************************************************)
(* 'Program:exit': one problem per recorded call site, in order.           *)
(***************************************************************************)
Problem(entry) ==
    LET n == calls[entry.node]
        fixable == isFixable(n, entry.scope)
    IN  [node |-> n.id, loc |-> <<PropertyStart(n), PropertyEnd(n)>>,
         messageId |-> MESSAGE_ID, fixable |-> fixable,
         fix |-> IF fixable THEN getFixFunction(n) ELSE <<>>]

ProgramExit ==
    /\ Traversing
    /\ open = <<>>
    /\ problems' = [k \in 1..Len(callExpressions) |-> Problem(callExpressions[k])]
    /\ done' = TRUE
    /\ UNCHANGED <<codeVars, pos, open, calls, fns, identifiers, pending, nnodes, globalX>>

Start ==
    /\ functionStack = <<>>
    /\ callExpressions = <<>>
    /\ allIdentifiers = <<>>
    /\ functionInfo = <<>>
    /\ problems = <<>>
    /\ done = FALSE
    /\ pos = 0
    /\ open = <<>>
    /\ calls = <<>>
    /\ fns = <<>>
    /\ identifiers = <<>>
    /\ pending = <<>>
    /\ nnodes = 0

\* a file whose module scope declares no name of a callback parameter
Init == Start /\ globalX = FALSE

\* a file whose module scope may declare `x`
InitBody == Start /\ globalX \in BOOLEAN

(***************************************************************************)
(* The inputs of the traversal.                                            *)
(***************************************************************************)
ReturnKind(hasArg, hasSemi, parenthesized, needsParens, needsSemi) ==
    [hasArg |-> hasArg, hasSemi |-> hasSemi, parenthesized |-> parenthesized,
     needsParens |-> needsParens, needsSemi |-> needsSemi]

\* `return;`  `return v;`
SiteReturns ==
    {ReturnKind(FALSE, TRUE, FALSE, FALSE, FALSE), ReturnKind(TRUE, TRUE, FALSE, FALSE, FALSE)}

\* `return;`  `return`  `return v;`  `return v`  `return {}.v;`  `return ({}.v);`
\* `return [v];` after a token that does not end its statement
ReturnKinds ==
    SiteReturns \cup
    {ReturnKind(FALSE, FALSE, FALSE, FALSE, FALSE),
     ReturnKind(TRUE, FALSE, FALSE, FALSE, FALSE),
     ReturnKind(TRUE, TRUE, FALSE, TRUE, FALSE),
     ReturnKind(TRUE, TRUE, TRUE, TRUE, FALSE),
     ReturnKind(TRUE, TRUE, FALSE, FALSE, TRUE)}

IdentifierKind(name, parent, left, write, pre, post) ==
    [name |-> name, parent |-> parent, left |-> left, write |-> write, pre |-> pre,
     post |-> post]

\* `x++`  `x = 1`  `y = x`  `[x] = y`, and the same for `i`
WriteKinds ==
    UNION {{IdentifierKind(name, "UpdateExpression", FALSE, TRUE, 0, 1),
            IdentifierKind(name, "AssignmentExpression", TRUE, TRUE, 0, 2),
            IdentifierKind(name, "AssignmentExpression", FALSE, FALSE, 2, 0),
            IdentifierKind(name, "ArrayPattern", FALSE, TRUE, 1, 3)} : name \in {"x", "i"}}

StatementTypes == ConstructTypes \cup {"BlockStatement"}

\* one call site per receiver, and one the analyzer rejects
SiteShapes ==
    {[BaseShape EXCEPT !.receiver = r] : r \in {"foo", "a.b", "R", "React.Children"}}
    \cup {[BaseShape EXCEPT !.cbType = "Identifier", !.nparams = 0]}

\* a receiver named like the callback's parameter, and one that is not
BodyShapes ==
    {[BaseShape EXCEPT !.receiver = r] : r \in {"foo", "x"}}

\* `return;`
BodyReturns == {ReturnKind(FALSE, TRUE, FALSE, FALSE, FALSE)}

\* `x`
BodyIdentifiers == {IdentifierKind("x", "ExpressionStatement", FALSE, FALSE, 0, 0)}

\* one call site per reason to reject it
RejectShapes ==
    {[BaseShape EXCEPT !.nparams = k] : k \in {0, 3}}
    \cup {[BaseShape EXCEPT !.optionalCall = TRUE],
          [BaseShape EXCEPT !.callParen = TRUE],
          [BaseShape EXCEPT !.nargs = 2],
          [BaseShape EXCEPT !.context = "Assign"],
          [BaseShape EXCEPT !.async = TRUE],
          [BaseShape EXCEPT !.cbType = "FunctionExpression", !.generator = TRUE],
          [BaseShape EXCEPT !.rest = TRUE],
          [BaseShape EXCEPT !.typed = TRUE],
          [BaseShape EXCEPT !.dupDef = TRUE],
          [BaseShape EXCEPT !.selfUsed = TRUE]}

\* every layout of the statement around a call site the analyzer may accept
LayoutShapes ==
    {[BaseShape EXCEPT !.optionalMember = oc[1], !.context = oc[2], !.block = bk[1],
                       !.multiline = bk[2], !.cbParen = cp, !.trailingComma = tc,
                       !.semicolon = sc] :
        oc \in {<<FALSE, "Statement">>, <<TRUE, "Statement">>, <<TRUE, "Assign">>},
        bk \in {<<FALSE, FALSE>>, <<TRUE, FALSE>>, <<TRUE, TRUE>>},
        cp \in BOOLEAN, tc \in BOOLEAN, sc \in BOOLEAN}

\* every receiver and parameter list the loop head is built from
HeadShapes ==
    {[BaseShape EXCEPT !.receiver = r, !.receiverParen = rp, !.optionalMember = om,
                       !.nparams = np] :
        r \in {"foo", "a.b"}, rp \in BOOLEAN, om \in BOOLEAN, np \in {1, 2}}
    \cup {[BaseShape EXCEPT !.cbType = "FunctionExpression", !.named = nm] :
            nm \in BOOLEAN}

FixShapes == LayoutShapes \cup HeadShapes \cup RejectShapes

(***************************************************************************)
(* Spec: the analysis of a file with several call sites and nested         *)
(* functions; the statements are return statements.                        *)
(***************************************************************************)
VisitSiteCall == VisitCall(SiteShapes, MaxNodes)
EnterSiteFunction == EnterFunction(MaxNodes)
VisitSiteReturn == VisitReturn(BodyReturns, MaxNodes)

Next ==
    \/ VisitSiteCall
    \/ VisitCallIdentifier
    \/ EnterCallback
    \/ EnterSiteFunction
    \/ ExitFunction
    \/ VisitSiteReturn
    \/ ProgramExit

Spec == Init /\ [][Next]_vars

(***************************************************************************)
(* SpecBody: the analysis of a file with one call site, over the           *)
(* statements, functions and identifiers in and around its callback.       *)
(***************************************************************************)
VisitBodyCall == VisitCall(BodyShapes, MaxBodyNodes)
EnterBodyFunction == EnterFunction(MaxBodyNodes)
VisitBodyReturn == VisitReturn(BodyReturns, MaxBodyNodes)
VisitBodyIdentifier == VisitIdentifier(BodyIdentifiers, MaxBodyNodes)
EnterBodyStatement == EnterStatement(StatementTypes \ {"WithStatement"}, MaxBodyNodes)

NextBody ==
    \/ VisitBodyCall
    \/ VisitCallIdentifier
    \/ EnterCallback
    \/ EnterBodyFunction
    \/ ExitFunction
    \/ EnterBodyStatement
    \/ ExitStatement
    \/ VisitBodyReturn
    \/ VisitBodyIdentifier
    \/ ProgramExit

SpecBody == InitBody /\ [][NextBody]_vars

(***************************************************************************)
(* SpecFix: the analysis of a file with one call site, over every layout   *)
(* the patch depends on.                                                   *)
(***************************************************************************)
VisitFixCall == calls = <<>> /\ VisitCall(FixShapes, MaxFixNodes)
VisitFixReturn == VisitReturn(ReturnKinds, MaxFixNodes)
VisitFixIdentifier == VisitIdentifier(WriteKinds, MaxFixNodes)
EnterFixStatement ==
    EnterStatement({"IfStatement", "WithStatement", "BlockStatement"}, MaxFixNodes)

NextFix ==
    \/ VisitFixCall
    \/ VisitCallIdentifier
    \/ EnterCallback
    \/ ExitFunction
    \/ EnterFixStatement
    \/ ExitStatement
    \/ VisitFixReturn
    \/ VisitFixIdentifier
    \/ ProgramExit

SpecFix == Init /\ [][NextFix]_vars

(***************************************************************************)
(* Vocabulary of the properties.                                           *)
(***************************************************************************)
\* the problem reported for call node n, if any
ProblemsOf(n) == {k \in 1..Len(problems) : problems[k].node = n.id}

Fixed == {k \in 1..Len(problems) : problems[k].fix # <<>>}

\* two edits overlap when one starts before the other ends, and conversely
Overlap(e1, e2) == e1.start < e2.end /\ e2.start < e1.end

NoOverlap(fix) ==
    \A a, b \in 1..Len(fix) : a < b => ~Overlap(fix[a], fix[b])

Range(seq) == {seq[k] : k \in 1..Len(seq)}

\* the receivers the rule never reports
Allowlisted(n) == n.shape.receiver \in {"React.Children", "Children", "R", "pIteration"}

\* the matched call sites the rule is to report, in the order of their visit
Reported == SelectSeq(calls, LAMBDA n : ~Allowlisted(n))

Unfixed(n) == \A k \in ProblemsOf(n) : problems[k].fix = <<>>

ReportedOnce(n) == Cardinality(ProblemsOf(n)) = 1

Loops ==
    {"WhileStatement", "DoWhileStatement", "ForStatement", "ForOfStatement",
     "ForInStatement"}

\* return statement r lies in a loop that lies in function f
InLoopInside(r, f) ==
    \E j, k \in 1..Len(r.ancestors) :
        /\ j < k
        /\ r.ancestors[j].id = f
        /\ r.ancestors[j].type \in FunctionTypes
        /\ r.ancestors[k].type \in Loops

\* a return statement of the callback of call n lies in a loop of the callback
HasLoopReturn(n) ==
    n.cb # 0 /\ \E r \in Range(fns[n.cb].returns) : InLoopInside(r, n.cb)

\* the scopes around scope s, s included
RECURSIVE ScopeChain(_)
ScopeChain(s) == IF s <= 0 THEN {0} ELSE {s} \cup ScopeChain(fns[s].upper)

\* the scope of the binding identifier i resolves to (-1: no binding)
RECURSIVE BindingFrom(_, _)
BindingFrom(s, name) ==
    IF s = 0 THEN (IF name = "x" /\ globalX THEN 0 ELSE -1)
    ELSE IF name \in fns[s].declares THEN s
    ELSE BindingFrom(fns[s].upper, name)

Binding(i) == BindingFrom(i.from, i.name)

\* an identifier named like a parameter of the callback of call n lies in the
\* iterated-source expression and resolves outside the callback
Captures(n) ==
    \E i \in Range(identifiers) :
        /\ i.name \in Range(ParamNames(n.shape))
        /\ ArrayStart(n) <= i.start
        /\ i.end <= ArrayEnd(n)
        /\ Binding(i) = -1 \/ Binding(i) \in ScopeChain(n.scope)

(***************************************************************************)
(* Properties of Spec.                                                     *)
(***************************************************************************)
\* C1: at the end of the traversal there is exactly one diagnostic per matched call
\* site whose receiver is not in the allowlist, in the order of the visits, located
\* at the method-name token; a call site with an allowlisted receiver is never
\* reported; a diagnostic carries a patch exactly when isFixable accepts the site.
C1_OneDiagnosticPerCallSite ==
    /\ ~done => problems = <<>>
    /\ done =>
        /\ Len(problems) = Len(Reported)
        /\ \A k \in 1..Len(problems) :
            LET n == Reported[k]
            IN  /\ problems[k].node = n.id
                /\ problems[k].loc = <<PropertyStart(n), PropertyStart(n) + 1>>
                /\ problems[k].messageId = "no-array-for-each"
                /\ (problems[k].fix # <<>>) <=> isFixable(n, n.scope)
        /\ \A n \in Range(calls) : Allowlisted(n) => ProblemsOf(n) = {}

\* a file with an allowlisted call site, a fixed one and a rejected one
C1_Witness ==
    /\ done
    /\ \E n \in Range(calls) : Allowlisted(n)
    /\ \E k \in 1..Len(problems) : problems[k].fix # <<>>
    /\ \E k \in 1..Len(problems) : problems[k].fix = <<>>

\* C9: every return statement is recorded in the metadata of exactly one function,
\* its immediately enclosing one, which is the top of the stack at the visit; the
\* stack holds the functions entered and not yet left, and is empty when
\* 'Program:exit' runs.
C9_ReturnsBelongToEnclosingFunction ==
    /\ functionStack = [k \in 1..Len(SelectSeq(open, IsFn)) |-> SelectSeq(open, IsFn)[k].id]
    /\ \A f \in 1..Len(fns) :
        /\ f \in DOMAIN functionInfo
        /\ functionInfo[f].returnStatements = fns[f].returns
        /\ \A r \in Range(functionInfo[f].returnStatements) : r.fn = f
    /\ done => functionStack = <<>>

\* a return statement of an outer function visited after a nested function, which
\* has a return statement of its own, was left
C9_Witness ==
    /\ done
    /\ \E f, g \in DOMAIN functionInfo :
        /\ fns[g].upper = f
        /\ functionInfo[g].returnStatements # <<>>
        /\ \E r \in Range(functionInfo[f].returnStatements) : r.start >= fns[g].bodyEnd

(***************************************************************************)
(* Properties of SpecBody, whose call sites meet every condition of the    *)
(* analyzer but the two on return statements and on parameter names.       *)
(***************************************************************************)
\* C4: a call site whose callback has a return statement inside a loop of the callback
\* is reported without a patch; the return statements of a function nested in the
\* callback do not count: a site left without a patch has such a return statement of
\* its own, or a captured parameter name.
C4_LoopReturnIsNeverRewritten ==
    done =>
        /\ \A n \in Range(calls) : HasLoopReturn(n) => ReportedOnce(n) /\ Unfixed(n)
        /\ \A n \in Range(calls) : Unfixed(n) /\ ~Captures(n) => HasLoopReturn(n)

\* a rejected call site whose return statement is not the body of the loop itself
C4_Witness ==
    /\ done
    /\ \E n \in Range(calls) :
        /\ ReportedOnce(n) /\ Unfixed(n)
        /\ \E r \in Range(fns[n.cb].returns) :
            InLoopInside(r, n.cb) /\ r.parentType \notin Loops

\* C5: a call site gets no patch when an identifier named like a parameter of the
\* callback lies in the iterated-source expression and resolves to a binding of the
\* call site's scope or of a scope around it, or to none; an identifier of that name
\* that resolves to the callback's scope or to a scope inside it blocks nothing: a
\* site left without a patch has such a capture, or a return statement in a loop.
C5_CapturedParameterBlocksPatch ==
    done =>
        /\ \A n \in Range(calls) : Captures(n) => ReportedOnce(n) /\ Unfixed(n)
        /\ \A n \in Range(calls) : Unfixed(n) /\ ~HasLoopReturn(n) => Captures(n)

\* a rejected call site in a function that declares the parameter's name, and a
\* patched one whose callback uses its parameter
C5_Witness ==
    /\ done
    /\ \E n \in Range(calls) :
        /\ n.scope # 0 /\ Captures(n) /\ ~HasLoopReturn(n)
        /\ ReportedOnce(n) /\ Unfixed(n)
    /\ \E n \in Range(calls) :
        /\ ~Unfixed(n)
        /\ \E i \in Range(identifiers) : i.name = "x" /\ Binding(i) = n.cb

(***************************************************************************)
(* Properties of SpecFix.                                                  *)
(***************************************************************************)
\* C3: within the patch of any fixable call site no two edits overlap
C3_EditsDoNotOverlap ==
    \A k \in Fixed : NoOverlap(problems[k].fix)

\* a fixable call site with the null-safe member form, a multi-line block body and
\* a return statement in it
C3_Witness ==
    /\ done
    /\ \E k \in Fixed :
        LET n == calls[problems[k].node]
        IN  /\ n.shape.optionalMember /\ n.shape.block /\ n.shape.multiline
            /\ fns[n.cb].returns # <<>>

\* the call site of a patched problem
Site(k) == calls[problems[k].node]

\* the receiver expression as the source has it
ReceiverSource(n) ==
    IF n.shape.receiverParen THEN <<"(">> \o RecvText(n.shape.receiver) \o <<")">>
    ELSE RecvText(n.shape.receiver)

NullSafe(n) == n.shape.optionalMember \/ n.shape.optionalCall

\* call site n meets every condition of the analyzer, its null-safe form apart
OtherwiseFixable(n) ==
    isFixable([n EXCEPT !.shape.optionalCall = FALSE, !.shape.optionalMember = FALSE],
              n.scope)

IsGuard(e) == e.text # <<>> /\ Head(e.text) = "if ("

\* C2: a call site written with the null-safe form, and fixable otherwise, is patched
\* with a guard before the call whose condition tests the receiver expression; the
\* patch of a call site written with the plain form has no guard.
C2_NullSafeFormsAreGuarded ==
    done =>
        \A n \in Range(calls) :
            /\ NullSafe(n) /\ OtherwiseFixable(n) =>
                \E k \in ProblemsOf(n) :
                    \E e \in Range(problems[k].fix) :
                        /\ e.start = CallStart(n) /\ e.end = CallStart(n)
                        /\ e.text = <<"if (">> \o RecvText(n.shape.receiver) \o <<") {", "\n">>
            /\ ~NullSafe(n) =>
                \A k \in ProblemsOf(n) : \A e \in Range(problems[k].fix) : ~IsGuard(e)

\* the references that write a parameter of the callback of call n
ParameterWrites(n) ==
    {i \in Range(identifiers) :
        /\ i.write
        /\ i.name \in Range(ParamNames(n.shape))
        /\ Binding(i) = n.cb}

\* the declaration keyword of the loop head of patch fix
Keyword(fix) == fix[1].text[IF fix[1].text[1] = "for (" THEN 2 ELSE 4]

\* C6: the loop head declares its variable with 'let' when some reference writes a
\* parameter of the callback, and with 'const' when none does.
C6_KeywordFollowsWrites ==
    done =>
        \A k \in Fixed :
            Keyword(problems[k].fix) = (IF ParameterWrites(Site(k)) # {} THEN "let" ELSE "const")

\* the loop head the specification describes for call n
ExpectedHead(n, keyword) ==
    <<"for (", keyword, " ">>
    \o (IF n.shape.nparams = 2 THEN <<"[", "i", ", ", "x", "]">> ELSE <<"x">>)
    \o <<" of ">> \o ReceiverSource(n)
    \o (IF n.shape.nparams = 2 THEN <<".entries()">> ELSE <<>>)
    \o <<")">>

\* C7: the first edit of a patch replaces the call from its start to the start of the
\* callback's body with the loop head: with one parameter 'for (<kw> <element> of
\* <source>)', with two 'for (<kw> [<index>, <element>] of <source>.entries())', the
\* source in parentheses when the receiver was; leading indentation and a trailing
\* space apart.
C7_LoopHeadText ==
    done =>
        \A k \in Fixed :
            LET n == Site(k)
                head == problems[k].fix[1]
            IN  /\ head.start = CallStart(n)
                /\ head.end = n.bodyStart
                /\ \E keyword \in {"let", "const"} :
                   \E before \in {<<>>, <<"<indent>", "\t">>} :
                   \E after \in {<<>>, <<" ">>} :
                        head.text = before \o ExpectedHead(n, keyword) \o after

\* a patched call site with two parameters and a parenthesized member receiver
C7_Witness ==
    /\ done
    /\ \E k \in Fixed :
        /\ Site(k).shape.nparams = 2
        /\ Site(k).shape.receiverParen
        /\ Site(k).shape.receiver = "a.b"

\* return statement r is the direct branch of an 'if' or the direct body of a 'with'
InBranch(r) ==
    \/ r.parentType = "IfStatement"
    \/ r.parentType = "WithStatement"

\* the edits of patch fix inside return statement r, its first token included
EditsIn(r, fix) ==
    {e \in Range(fix) :
        \/ r.start < e.start /\ e.end <= r.end
        \/ e.start = r.start /\ r.start < e.end /\ e.end <= r.start + 1}

HasBrace(e) == \E j \in 1..Len(e.text) : e.text[j] \in {"{ ", " }"}

\* patch fix opens a brace after the 'return' token of r and closes it after the
\* 'continue;' it adds at the end of r
Braced(r, fix) ==
    \E a, b, c \in 1..Len(fix) :
        /\ a < b /\ b < c
        /\ fix[a].start = r.start + 1 /\ fix[a].end = r.start + 1
        /\ fix[a].text # <<>> /\ Head(fix[a].text) = "{ "
        /\ fix[b] = [start |-> r.end, end |-> r.end, text |-> <<" continue;">>]
        /\ fix[c] = [start |-> r.end, end |-> r.end, text |-> <<" }">>]

\* patch fix replaces r by '{ continue }' or the like
BracedReplacement(r, fix) ==
    \E e \in EditsIn(r, fix) :
        /\ e.start = r.start
        /\ e.text # <<>> /\ Head(e.text) = "{ " /\ Last(e.text) = " }"

ReturnsOf(k) == Range(fns[Site(k).cb].returns)

\* C8: the replacement of a return statement is wrapped in braces exactly when the
\* return statement is the direct branch of an 'if' or the direct body of a 'with'.
C8_BracesExactlyInBranches ==
    done =>
        \A k \in Fixed : \A r \in ReturnsOf(k) :
            InBranch(r) <=> (Braced(r, problems[k].fix) \/ BracedReplacement(r, problems[k].fix))

\* C8, amended: the replacement of a return statement with a value is wrapped in
\* braces exactly when the return statement is the direct branch of an 'if' or the
\* direct body of a 'with'; a return statement without a value becomes a bare
\* 'continue' and is never wrapped.
C8_BracesExactlyInBranchesOfValues ==
    done =>
        \A k \in Fixed : \A r \in ReturnsOf(k) :
            LET fix == problems[k].fix
            IN  IF r.hasArg
                THEN /\ InBranch(r) <=> Braced(r, fix)
                     /\ ~InBranch(r) => \A e \in EditsIn(r, fix) : ~HasBrace(e)
                     /\ \E e \in Range(fix) :
                            e = [start |-> r.end, end |-> r.end, text |-> <<" continue;">>]
                ELSE /\ \A e \in EditsIn(r, fix) : ~HasBrace(e)
                     /\ \E e \in EditsIn(r, fix) :
                            e = [start |-> r.start, end |-> r.start + 1,
                                 text |-> <<"continue">>]

\* a patch with a braced value return that is the branch of an 'if'
C8_Witness ==
    /\ done
    /\ \E k \in Fixed :
        \E r \in ReturnsOf(k) :
            r.hasArg /\ r.parentType = "IfStatement" /\ Braced(r, problems[k].fix)

\* C10: the last two edits of a patch are empty insertions, and the patch spans the
\* statement of the call from its first token through its last, a closing semicolon
\* included.
C10_PatchSpansStatement ==
    done =>
        \A k \in Fixed :
            LET fix == problems[k].fix
                n == Site(k)
            IN  /\ Len(fix) >= 2
                /\ \A j \in {Len(fix) - 1, Len(fix)} :
                        fix[j].text = <<>> /\ fix[j].start = fix[j].end
                /\ \E e \in Range(fix) : e.start <= StmtStart(n)
                /\ \E e \in Range(fix) : e.end >= StmtEnd(n)

====
